---- MODULE Spec2Model ----
(***************************************************************************)
(* The workshop-equipment server: the in-memory store (MemStorage), the    *)
(* chat service (GeminiService) and the REST handlers of registerRoutes;   *)
(* and the chat page of the client (ChatInterface inside DeviceDetail).    *)
(*                                                                         *)
(* Node runs one handler at a time up to its next wait on real I/O.  The   *)
(* store's async methods resolve without I/O, so a handler is one step,    *)
(* except POST chat with a configured provider, which is suspended in      *)
(* generateContent, and the seeding, which is suspended in scrypt.         *)
(***************************************************************************)
EXTENDS Integers, Sequences, FiniteSets, TLC

VARIABLES
    storage,        \* the MemStorage object: its four maps and four id counters
    apiConfigured,  \* GeminiService.api # null
    seedPc,         \* initializeSampleData: "hashing" (awaiting scrypt) or "done"
    pending,        \* POST chat requests suspended in model.generateContent
    providerCalls,  \* number of generateContent calls issued so far
    last,           \* the response being written (NoResponse once flushed)
    route,          \* the route whose handler wrote `last` (NoRoute once flushed)
    ui              \* the chat page of one browser: ChatInterface inside DeviceDetail

vars == <<storage, apiConfigured, seedPc, pending, providerCalls, last, route, ui>>

----------------------------------------------------------------------------
(* Bounds of the model *)

MaxMessages == 2        \* chat messages ever created
MaxNewDevices == 1      \* devices created through POST /api/devices
MaxNewCategories == 1   \* categories created through POST /api/device-categories
MaxRegistrations == 1   \* users created through registration
MaxTime == 1            \* wall-clock readings are 0..MaxTime
MaxTurns == 2           \* chat turns of ChatSpec, the chat routes under overlapping requests
MaxSends == 2           \* runs of the page's handleSendMessage that pass its guard, in UiSpec

----------------------------------------------------------------------------
(* Values *)

\* undefined, as the result of a lookup that found nothing
Undefined == [undefined |-> TRUE]
NaN == -1
Anonymous == 0

Times == 0..MaxTime

\* new Date().toISOString() and new Date(ts).getTime(): the reading t of the
\* wall clock as text, and back
toISOString(t) == [iso |-> t]
getTime(ts) == ts.iso

\* parseInt(req.params.x): a path parameter is digits or some other text
Param(n) == [digits |-> TRUE, n |-> n]
NonNumericParam == [digits |-> FALSE, n |-> 0]
parseInt(p) == IF p.digits THEN p.n ELSE NaN
isNaN(n) == n = NaN

\* f with the entry for key k removed (Map.delete)
MapDelete(f, k) == [i \in DOMAIN f \ {k} |-> f[i]]

\* Array.from(map.values()): a Map iterates in insertion order, which is
\* ascending id because ids are handed out ascending and set() on an
\* existing key keeps its place
RECURSIVE ValuesFrom(_, _)
ValuesFrom(f, ids) ==
    IF ids = {} THEN <<>>
    ELSE LET m == CHOOSE i \in ids : \A j \in ids : i <= j
         IN <<f[m]>> \o ValuesFrom(f, ids \ {m})
Values(f) == ValuesFrom(f, DOMAIN f)

----------------------------------------------------------------------------
(* MemStorage *)

EmptyMap == [i \in {} |-> 0]

\* constructor, up to the call of initializeSampleData
NewStorage ==
    [deviceCategories |-> EmptyMap, devices |-> EmptyMap,
     chatMessages |-> EmptyMap, users |-> EmptyMap,
     categoryId |-> 1, deviceId |-> 1, messageId |-> 1, userId |-> 1]

getUserByUsername(S, username) ==
    LET found == SelectSeq(Values(S.users), LAMBDA u : u.username = username)
    IN IF found = <<>> THEN Undefined ELSE Head(found)

createUser(S, userData) ==
    LET id == S.userId
        newUser == [id |-> id, username |-> userData.username,
                    isAdmin |-> IF "isAdmin" \in DOMAIN userData
                                THEN userData.isAdmin ELSE FALSE]
    IN [store |-> [S EXCEPT !.userId = id + 1, !.users = (id :> newUser) @@ @],
        result |-> newUser]

getDeviceCategory(S, id) ==
    IF id \in DOMAIN S.deviceCategories THEN S.deviceCategories[id] ELSE Undefined

\* createDeviceCategory with ++this.categoryId in place of this.categoryId++
createDeviceCategory_preIncrement(S, category) ==
    LET id == S.categoryId + 1
        newCategory == [id |-> id] @@ category
    IN [store |-> [S EXCEPT !.categoryId = id, !.deviceCategories = (id :> newCategory) @@ @],
        result |-> newCategory]

createDeviceCategory(S, category) ==
    LET id == S.categoryId
        newCategory == [id |-> id] @@ category
    IN [store |-> [S EXCEPT !.categoryId = id + 1,
                            !.deviceCategories = (id :> newCategory) @@ @],
        result |-> newCategory]

getAllDeviceCategories(S) == Values(S.deviceCategories)

getDevicesByCategory(S, categoryId) ==
    SelectSeq(Values(S.devices), LAMBDA device : device.categoryId = categoryId)

getDevice(S, id) ==
    IF id \in DOMAIN S.devices THEN S.devices[id] ELSE Undefined

\* createDevice handing out the lowest id no device holds
createDevice_reusesFreedId(S, device) ==
    LET id == CHOOSE i \in 1..S.deviceId :
                  i \notin DOMAIN S.devices /\ \A j \in 1..(i - 1) : j \in DOMAIN S.devices
        newDevice == [id |-> id] @@ device
    IN [store |-> [S EXCEPT !.deviceId = @ + 1, !.devices = (id :> newDevice) @@ @],
        result |-> newDevice]

createDevice(S, device) ==
    LET id == S.deviceId
        newDevice == [id |-> id] @@ device
    IN [store |-> [S EXCEPT !.deviceId = id + 1, !.devices = (id :> newDevice) @@ @],
        result |-> newDevice]

\* updateDevice storing the supplied fields in place of the device
updateDevice_dropsOtherFields(S, id, deviceData) ==
    IF id \notin DOMAIN S.devices THEN [store |-> S, result |-> Undefined]
    ELSE LET updatedDevice == deviceData @@ [id |-> id]
         IN [store |-> [S EXCEPT !.devices[id] = updatedDevice], result |-> updatedDevice]

updateDevice(S, id, deviceData) ==
    IF id \notin DOMAIN S.devices THEN [store |-> S, result |-> Undefined]
    ELSE LET updatedDevice == deviceData @@ S.devices[id]
         IN [store |-> [S EXCEPT !.devices[id] = updatedDevice],
             result |-> updatedDevice]

\* deleteDevice reporting the device without removing it
deleteDevice_onlyReports(S, id) == [store |-> S, result |-> id \in DOMAIN S.devices]

deleteDevice(S, id) ==
    [store |-> [S EXCEPT !.devices = MapDelete(@, id)],
     result |-> id \in DOMAIN S.devices]

\* the comparator with its operands exchanged: latest first
byTimestamp_descending(a, b) == getTime(b.timestamp) - getTime(a.timestamp)

\* the comparator (a, b) => new Date(a.timestamp).getTime() - new Date(b.timestamp).getTime()
byTimestamp(a, b) == getTime(a.timestamp) - getTime(b.timestamp)

\* Array.prototype.sort with that comparator: stable, so an element goes
\* behind every earlier element that does not compare greater

RECURSIVE SortInsert(_, _)
SortInsert(sorted, x) ==
    IF sorted = <<>> THEN <<x>>
    ELSE IF byTimestamp(Head(sorted), x) > 0 THEN <<x>> \o sorted
    ELSE <<Head(sorted)>> \o SortInsert(Tail(sorted), x)

RECURSIVE Sort(_)
Sort(s) ==
    IF s = <<>> THEN <<>>
    ELSE SortInsert(Sort(SubSeq(s, 1, Len(s) - 1)), s[Len(s)])

\* getChatMessages without the sort
getChatMessages_unsorted(S, deviceId) ==
    SelectSeq(Values(S.chatMessages), LAMBDA message : message.deviceId = deviceId)

getChatMessages(S, deviceId) ==
    Sort(SelectSeq(Values(S.chatMessages), LAMBDA message : message.deviceId = deviceId))

\* createChatMessage taking the id from the number of stored messages
createChatMessage_sizeBasedId(S, message) ==
    LET id == Cardinality(DOMAIN S.chatMessages) + 1
        newMessage == [id |-> id] @@ message
    IN [store |-> [S EXCEPT !.messageId = @ + 1,
                            !.chatMessages = [i \in DOMAIN @ \cup {id} |->
                                                 IF i = id THEN newMessage ELSE @[i]]],
        result |-> newMessage]

createChatMessage(S, message) ==
    LET id == S.messageId
        newMessage == [id |-> id] @@ message
    IN [store |-> [S EXCEPT !.messageId = id + 1,
                            !.chatMessages = (id :> newMessage) @@ @],
        result |-> newMessage]

\* clearChatMessages emptying the whole map
clearChatMessages_all(S, deviceId) == [S EXCEPT !.chatMessages = EmptyMap]

clearChatMessages(S, deviceId) ==
    LET messagesToDelete ==
            {id \in DOMAIN S.chatMessages : S.chatMessages[id].deviceId = deviceId}
    IN [S EXCEPT !.chatMessages = [id \in DOMAIN @ \ messagesToDelete |-> @[id]]]

----------------------------------------------------------------------------
(* initializeSampleData *)

SeedCategories ==
    << [name |-> "Cutting Tools"], [name |-> "Drilling Tools"],
       [name |-> "Welding Equipment"], [name |-> "Measuring Tools"],
       [name |-> "Finishing Tools"], [name |-> "Forming Tools"],
       [name |-> "Machining Tools"] >>

\* each seeded device with the position, in SeedCategories, of the category
\* variable its categoryId is read from
SeedDevices ==
    << [name |-> "Laser Cutter", category |-> 1],
       [name |-> "Metal Drill Press", category |-> 2],
       [name |-> "TIG Welder", category |-> 3],
       [name |-> "Digital Caliper", category |-> 4],
       [name |-> "Bench Grinder", category |-> 5],
       [name |-> "Sheet Metal Shear", category |-> 1],
       [name |-> "Metal Press Brake", category |-> 6],
       [name |-> "Metal Lathe", category |-> 7] >>

NumSeedCategories == Len(SeedCategories)
NumSeedDevices == Len(SeedDevices)

\* the store after the first k createDeviceCategory calls of the seeding, with
\* the categories they returned
RECURSIVE SeedCategoriesUpTo(_, _)
SeedCategoriesUpTo(S, k) ==
    IF k = 0 THEN [store |-> S, created |-> <<>>]
    ELSE LET before == SeedCategoriesUpTo(S, k - 1)
             r == createDeviceCategory(before.store, SeedCategories[k])
         IN [store |-> r.store, created |-> Append(before.created, r.result)]

\* the seeding with the category ids written out as 1..7 in place of the ids
\* createDeviceCategory returned
RECURSIVE SeedDevicesUpTo_literalIds(_, _, _)
SeedDevicesUpTo_literalIds(S, created, k) ==
    IF k = 0 THEN S
    ELSE createDevice(SeedDevicesUpTo_literalIds(S, created, k - 1),
                      [name |-> SeedDevices[k].name,
                       categoryId |-> SeedDevices[k].category,
                       specifications |-> "seed"]).store

RECURSIVE SeedDevicesUpTo(_, _, _)
SeedDevicesUpTo(S, created, k) ==
    IF k = 0 THEN S
    ELSE createDevice(SeedDevicesUpTo(S, created, k - 1),
                      [name |-> SeedDevices[k].name,
                       categoryId |-> created[SeedDevices[k].category].id,
                       specifications |-> "seed"]).store

initializeSampleData(S) ==
    LET withAdmin == createUser(S, [username |-> "admin", isAdmin |-> TRUE]).store
        cats == SeedCategoriesUpTo(withAdmin, NumSeedCategories)
    IN SeedDevicesUpTo(cats.store, cats.created, NumSeedDevices)

----------------------------------------------------------------------------
(* Requests *)

\* the session of a request: none, or the user passport deserialized
Sessions == {Anonymous} \cup DOMAIN storage.users

FirstNewDevice == NumSeedDevices + 1
FirstNewCategory == NumSeedCategories + 1

DeviceParams ==
    {Param(1)} \cup {Param(n) : n \in FirstNewDevice..(NumSeedDevices + MaxNewDevices)}
        \cup {NonNumericParam}
CategoryParams ==
    {Param(1)} \cup {Param(n) : n \in FirstNewCategory..(NumSeedCategories + MaxNewCategories)}
        \cup {NonNumericParam}

NoFields == [f \in {} |-> 0]

UserText == "How do I start it?"
ImageUrl == "/uploads/1.png"
ChatBodies ==
    { [message |-> UserText], [message |-> UserText, imageUrl |-> ImageUrl],
      [message |-> ""], NoFields }

DeviceBodies ==
    { [name |-> "Mill", categoryId |-> FirstNewCategory, specifications |-> "s1"],
      [name |-> "Mill"] }
PatchBodies ==
    { \* id is not a field of the schema
      [id |-> 1, categoryId |-> FirstNewCategory, specifications |-> "s2"] }
\* a body whose name is not a string; `mistyped` lists the fields whose JSON
\* value has the wrong type
BadPatchBody == [name |-> "", mistyped |-> {"name"}]
CategoryBodies == { [name |-> "Lathes"], NoFields }

Usernames == {"bob"}

\* z.string().optional() accepts the empty string as imageUrl
EmptyImageUrlBody == [message |-> UserText, imageUrl |-> ""]
ChatTurnBodies == ChatBodies \cup {EmptyImageUrlBody}

ProviderReply == "Release the emergency stop, then press start."
ProviderErrors == {"fetch failed", "API key not valid"}
ProviderOutcomes ==
    { [ok |-> TRUE, text |-> ProviderReply] }
        \cup { [ok |-> FALSE, text |-> e] : e \in ProviderErrors }

----------------------------------------------------------------------------
(* Responses *)

Response(status, body) == [user |-> Anonymous, status |-> status, body |-> body]
NoResponse == Response(0, NoFields)
NoRoute == ""
ChatRoute == "POST /api/devices/:deviceId/chat"
Message(status, text) == Response(status, [message |-> text])

\* z.object(shape).safeParse(body) for a shape of required string fields and
\* optional ones: the fields of the shape that the body has
Pick(body, fields) == [f \in DOMAIN body \cap fields |-> body[f]]

----------------------------------------------------------------------------
(* GeminiService *)

FallbackText ==
    "Sorry, I'm unable to respond because the Gemini API key is not configured. Please contact the administrator."
ApologyText ==
    "Sorry, I encountered an error while generating a response. Please try again later."

\* JSON.stringify(deviceContext, null, 2), as its pieces
deviceContext(device) ==
    <<"name", device.name, "specifications", device.specifications>>

\* the template of getChatResponse, as its pieces; userMessage is pieces too
systemPrompt(device, userMessage) ==
    <<"You are a specialized AI assistant", device.name, "Device Information:">>
        \o deviceContext(device)
        \o <<"Guidelines:", device.name, "User Query:">> \o userMessage

\* getChatResponse with the test for a configured key turned round
getChatResponse_invertedKeyCheck(api, device, userMessage) ==
    IF api THEN [returned |-> TRUE, text |-> FallbackText]
    ELSE [returned |-> FALSE, sent |-> systemPrompt(device, userMessage)]

\* getChatResponse without the test for a configured key
getChatResponse_noKeyCheck(api, device, userMessage) ==
    [returned |-> FALSE, sent |-> systemPrompt(device, userMessage)]


\* getChatResponse up to its first wait: without a key it returns the fallback
\* text, with one it sends the prompt to the provider
getChatResponse(api, device, userMessage) ==
    IF ~api THEN [returned |-> TRUE, text |-> FallbackText]
    ELSE [returned |-> FALSE, sent |-> systemPrompt(device, userMessage)]

\* getChatResponse letting the provider's exception through
chatResponseAfter_rethrows(outcome) ==
    IF outcome.ok THEN [threw |-> FALSE, text |-> outcome.text]
    ELSE [threw |-> TRUE, error |-> outcome.text]


\* getChatResponse from the end of generateContent on: the text, or what the
\* catch block returns
chatResponseAfter(outcome) ==
    IF outcome.ok THEN [threw |-> FALSE, text |-> outcome.text]
    ELSE [threw |-> FALSE, text |-> ApologyText]

----------------------------------------------------------------------------
(* Routes *)

isAuthenticated(sess) == sess # Anonymous

\* an isAdmin middleware that asks for a session only
isAdmin_anySession(S, sess) == isAuthenticated(sess)

\* the isAdmin middleware lets the request through
isAdmin(S, sess) == isAuthenticated(sess) /\ S.users[sess].isAdmin

AdminRequired(S, sess) ==
    [store |-> S, res |-> [Message(401, "Admin access required") EXCEPT !.user = sess]]

DeviceFields == {"name", "categoryId", "specifications"}
FieldTypeOk(body, f) == ~("mistyped" \in DOMAIN body /\ f \in body.mistyped)
\* insertDeviceSchema.safeParse
insertDeviceSchemaOk(body) ==
    /\ DeviceFields \subseteq DOMAIN body
    /\ \A f \in DeviceFields : FieldTypeOk(body, f)
\* insertDeviceSchema.partial().safeParse
partialDeviceSchemaOk(body) ==
    \A f \in DOMAIN body \cap DeviceFields : FieldTypeOk(body, f)
insertDeviceCategorySchemaOk(body) == "name" \in DOMAIN body

\* POST /api/devices refusing a categoryId that names no category
PostDevice_checksCategory(S, sess, body) ==
    IF ~isAdmin(S, sess) THEN AdminRequired(S, sess)
    ELSE IF ~insertDeviceSchemaOk(body) \/ getDeviceCategory(S, body.categoryId) = Undefined
    THEN [store |-> S, res |-> Message(400, "Invalid device data")]
    ELSE LET r == createDevice(S, Pick(body, DeviceFields))
         IN [store |-> r.store, res |-> Response(201, r.result)]

\* POST /api/devices
PostDevice(S, sess, body) ==
    IF ~isAdmin(S, sess) THEN AdminRequired(S, sess)
    ELSE IF ~insertDeviceSchemaOk(body)
    THEN [store |-> S, res |-> Message(400, "Invalid device data")]
    ELSE LET r == createDevice(S, Pick(body, DeviceFields))
         IN [store |-> r.store, res |-> Response(201, r.result)]

\* PATCH /api/devices/:deviceId
PatchDevice(S, sess, param, body) ==
    LET deviceId == parseInt(param) IN
    IF ~isAdmin(S, sess) THEN AdminRequired(S, sess)
    ELSE IF isNaN(deviceId)
    THEN [store |-> S, res |-> Message(400, "Invalid device ID")]
    ELSE IF ~partialDeviceSchemaOk(body)
    THEN [store |-> S, res |-> Message(400, "Invalid device data")]
    ELSE LET r == updateDevice(S, deviceId, Pick(body, DeviceFields))
         IN IF r.result = Undefined
            THEN [store |-> r.store, res |-> Message(404, "Device not found")]
            ELSE [store |-> r.store, res |-> Response(200, r.result)]

\* DELETE /api/devices/:deviceId without the call of clearChatMessages
DeleteDevice_noClear(S, sess, param) ==
    LET deviceId == parseInt(param) IN
    IF ~isAdmin(S, sess) THEN AdminRequired(S, sess)
    ELSE IF isNaN(deviceId)
    THEN [store |-> S, res |-> Message(400, "Invalid device ID")]
    ELSE LET r == deleteDevice(S, deviceId)
         IN IF ~r.result
            THEN [store |-> r.store, res |-> Message(404, "Device not found")]
            ELSE [store |-> r.store, res |-> Message(200, "Device deleted successfully")]

\* DELETE /api/devices/:deviceId
DeleteDevice(S, sess, param) ==
    LET deviceId == parseInt(param) IN
    IF ~isAdmin(S, sess) THEN AdminRequired(S, sess)
    ELSE IF isNaN(deviceId)
    THEN [store |-> S, res |-> Message(400, "Invalid device ID")]
    ELSE LET cleared == clearChatMessages(S, deviceId)
             r == deleteDevice(cleared, deviceId)
         IN IF ~r.result
            THEN [store |-> r.store, res |-> Message(404, "Device not found")]
            ELSE [store |-> r.store, res |-> Message(200, "Device deleted successfully")]

\* POST /api/device-categories
PostCategory(S, sess, body) ==
    IF ~isAdmin(S, sess) THEN AdminRequired(S, sess)
    ELSE IF ~insertDeviceCategorySchemaOk(body)
    THEN [store |-> S, res |-> Message(400, "Invalid category data")]
    ELSE LET r == createDeviceCategory(S, Pick(body, {"name"}))
         IN [store |-> r.store, res |-> Response(201, r.result)]

CategoryHasDevices ==
    "Cannot delete category with existing devices. Remove or reassign devices first."

\* DELETE /api/device-categories/:categoryId without the look for devices
DeleteCategory_noDeviceCheck(S, sess, param) ==
    LET categoryId == parseInt(param) IN
    IF ~isAdmin(S, sess) THEN AdminRequired(S, sess)
    ELSE IF isNaN(categoryId)
    THEN [store |-> S, res |-> Message(400, "Invalid category ID")]
    ELSE IF getDeviceCategory(S, categoryId) = Undefined
    THEN [store |-> S, res |-> Message(404, "Category not found")]
    ELSE [store |-> S, res |-> Message(501, "Category deletion not implemented")]

\* DELETE /api/device-categories/:categoryId
DeleteCategory(S, sess, param) ==
    LET categoryId == parseInt(param) IN
    IF ~isAdmin(S, sess) THEN AdminRequired(S, sess)
    ELSE IF isNaN(categoryId)
    THEN [store |-> S, res |-> Message(400, "Invalid category ID")]
    ELSE IF Len(getDevicesByCategory(S, categoryId)) > 0
    THEN [store |-> S, res |-> Message(400, CategoryHasDevices)]
    ELSE IF getDeviceCategory(S, categoryId) = Undefined
    THEN [store |-> S, res |-> Message(404, "Category not found")]
    ELSE [store |-> S, res |-> Message(501, "Category deletion not implemented")]

\* DELETE /api/devices/:deviceId/chat
ClearChat(S, param) ==
    LET deviceId == parseInt(param) IN
    IF isNaN(deviceId)
    THEN [store |-> S, res |-> Message(400, "Invalid device ID")]
    ELSE [store |-> clearChatMessages(S, deviceId),
          res |-> Message(200, "Chat history cleared")]

\* GET /api/categories/:categoryId/devices
GetCategoryDevices(S, param) ==
    LET categoryId == parseInt(param) IN
    IF isNaN(categoryId)
    THEN [store |-> S, res |-> Message(400, "Invalid category ID")]
    ELSE [store |-> S,
          res |-> Response(200, [devices |-> getDevicesByCategory(S, categoryId)])]

\* GET /api/devices/:deviceId
GetDevice(S, param) ==
    LET deviceId == parseInt(param)
        device == getDevice(S, deviceId)
    IN
    IF isNaN(deviceId)
    THEN [store |-> S, res |-> Message(400, "Invalid device ID")]
    ELSE IF device = Undefined
    THEN [store |-> S, res |-> Message(404, "Device not found")]
    ELSE [store |-> S, res |-> Response(200, device)]

\* GET /api/devices/:deviceId/messages
GetMessages(S, param) ==
    LET deviceId == parseInt(param) IN
    IF isNaN(deviceId)
    THEN [store |-> S, res |-> Message(400, "Invalid device ID")]
    ELSE [store |-> S, res |-> Response(200, [messages |-> getChatMessages(S, deviceId)])]

\* the userMessage object of POST chat; `t` is the reading of new Date()
userMessageOf(deviceId, data, t) ==
    [deviceId |-> deviceId, isUser |-> TRUE, message |-> data.message,
     timestamp |-> toISOString(t)] @@ Pick(data, {"imageUrl"})

aiMessageOf(deviceId, aiResponse, t) ==
    [deviceId |-> deviceId, isUser |-> FALSE, message |-> aiResponse,
     timestamp |-> toISOString(t)]

ImageNote == "Note: The user has attached an image to this message which is available at:"
ImageRequest == "Please analyze the image and provide feedback based on the visual content."

\* the prompt of POST chat with the note for every body that has an imageUrl
promptOf_anyImageUrlField(data) ==
    IF "imageUrl" \in DOMAIN data
    THEN <<data.message, ImageNote, data.imageUrl, ImageRequest>>
    ELSE <<data.message>>

\* the prompt of POST chat, as its pieces; an empty imageUrl is falsy
promptOf(data) ==
    IF "imageUrl" \in DOMAIN data /\ data.imageUrl # ""
    THEN <<data.message, ImageNote, data.imageUrl, ImageRequest>>
    ELSE <<data.message>>

\* POST chat answering without saving the assistant's message
ChatReply_noSave(S, deviceId, userMessage, aiResponse, t) ==
    [store |-> S,
     res |-> Response(200, [userMessage |-> userMessage,
                            aiMessage |-> aiMessageOf(deviceId, aiResponse, t)])]


\* POST chat from the return of getChatResponse on: the assistant's message is
\* stored and both messages are returned
ChatReply(S, deviceId, userMessage, aiResponse, t) ==
    LET aiMessage == aiMessageOf(deviceId, aiResponse, t)
    IN [store |-> createChatMessage(S, aiMessage).store,
        res |-> Response(200, [userMessage |-> userMessage, aiMessage |-> aiMessage])]

\* POST chat saving the user message before it looks the device up
PostChat_savesBeforeLookup(S, api, param, body, t1, t2) ==
    LET deviceId == parseInt(param)
        device == getDevice(S, deviceId)
        data == Pick(body, {"message", "imageUrl"})
    IN
    IF ~("message" \in DOMAIN body /\ Len(body.message) >= 1)
    THEN [store |-> S, res |-> Message(400, "Invalid message format"), suspended |-> {}]
    ELSE IF isNaN(deviceId)
    THEN [store |-> S, res |-> Message(400, "Invalid device ID"), suspended |-> {}]
    ELSE LET userMessage == userMessageOf(deviceId, data, t1)
             saved == createChatMessage(S, userMessage)
             reply == getChatResponse(api, device, promptOf(data))
         IN IF device = Undefined
            THEN [store |-> saved.store, res |-> Message(404, "Device not found"),
                  suspended |-> {}]
            ELSE IF reply.returned
            THEN ChatReply(saved.store, deviceId, userMessage, reply.text, t2)
                    @@ [suspended |-> {}]
            ELSE [store |-> saved.store, res |-> NoResponse,
                  suspended |-> {[deviceId |-> deviceId, device |-> device,
                                  userMessage |-> userMessage,
                                  userMessageId |-> saved.result.id,
                                  sent |-> reply.sent]}]


\* POST /api/devices/:deviceId/chat up to its response or, with a provider, up
\* to the wait on generateContent; t1 and t2 are the two readings of new Date()
PostChat(S, api, param, body, t1, t2) ==
    LET deviceId == parseInt(param)
        device == getDevice(S, deviceId)
        data == Pick(body, {"message", "imageUrl"})
    IN
    IF ~("message" \in DOMAIN body /\ Len(body.message) >= 1)
    THEN [store |-> S, res |-> Message(400, "Invalid message format"), suspended |-> {}]
    ELSE IF isNaN(deviceId)
    THEN [store |-> S, res |-> Message(400, "Invalid device ID"), suspended |-> {}]
    ELSE IF device = Undefined
    THEN [store |-> S, res |-> Message(404, "Device not found"), suspended |-> {}]
    ELSE LET userMessage == userMessageOf(deviceId, data, t1)
             saved == createChatMessage(S, userMessage)
             reply == getChatResponse(api, device, promptOf(data))
         IN IF reply.returned
            THEN ChatReply(saved.store, deviceId, userMessage, reply.text, t2)
                    @@ [suspended |-> {}]
            ELSE [store |-> saved.store, res |-> NoResponse,
                  suspended |-> {[deviceId |-> deviceId, device |-> device,
                                  userMessage |-> userMessage,
                                  userMessageId |-> saved.result.id,
                                  sent |-> reply.sent]}]

\* POST chat looking the device up again once generateContent has ended
PostChatResume_looksUpAgain(S, p, outcome, t) ==
    LET reply == chatResponseAfter(outcome)
    IN IF reply.threw
       THEN [store |-> S,
             res |-> Response(500, [message |-> "Failed to process chat message",
                                    error |-> reply.error])]
       ELSE IF getDevice(S, p.deviceId) # p.device
       THEN [store |-> S, res |-> Message(404, "Device not found")]
       ELSE ChatReply(S, p.deviceId, p.userMessage, reply.text, t)

\* POST chat from the end of generateContent on, for the suspended request p
PostChatResume(S, p, outcome, t) ==
    LET reply == chatResponseAfter(outcome)
    IN IF reply.threw
       THEN [store |-> S,
             res |-> Response(500, [message |-> "Failed to process chat message",
                                    error |-> reply.error])]
       ELSE ChatReply(S, p.deviceId, p.userMessage, reply.text, t)

----------------------------------------------------------------------------
(* The chat page: the ChatInterface component and, around it, DeviceDetail *)

\* null, and a string that is not null
Null == [null |-> TRUE]
String(text) == [null |-> FALSE, text |-> text]

\* what one render of ChatInterface shows and what its handlers close over
Shown(U) == [message |-> U.message, isSending |-> U.isSending,
             selectedImage |-> U.selectedImage]

\* useState("") , useState(false), useState<File | null>(null), first render;
\* `sends` are the runs of handleSendMessage that wait on a fetch, `started`
\* counts them
InitUi ==
    [message |-> "", isSending |-> FALSE, selectedImage |-> FALSE,
     rendered |-> [message |-> "", isSending |-> FALSE, selectedImage |-> FALSE],
     sends |-> {}, started |-> 0]

setMessage(U, text) == [U EXCEPT !.message = text]
setIsSending(U, b) == [U EXCEPT !.isSending = b]
setSelectedImage(U, file) == [U EXCEPT !.selectedImage = file]
clearImage(U) == setSelectedImage(U, FALSE)

\* DeviceDetail.handleSendMessage, passed as onSendMessage: it takes the
\* message alone and posts { message }
onSendMessage(message, imageUrl) == [message |-> message]

----------------------------------------------------------------------------
(* Registration: auth.ts is not among the sources; the endpoint creates a   *)
(* user with a username no other user has, and never an administrator.      *)

RegisterUser(S, username) ==
    IF getUserByUsername(S, username) # Undefined
    THEN [store |-> S, res |-> Message(400, "Username already exists")]
    ELSE LET r == createUser(S, [username |-> username])
         IN [store |-> r.store, res |-> Response(201, r.result)]

----------------------------------------------------------------------------
(* The state machine *)

Init ==
    /\ storage = NewStorage
    /\ apiConfigured \in BOOLEAN
    /\ seedPc = "hashing"
    /\ pending = {}
    /\ providerCalls = 0
    /\ last = NoResponse
    /\ route = NoRoute
    /\ ui = InitUi

Seeded == IF seedPc = "done" THEN 1 ELSE 0

\* a handler runs to its response: the store it leaves and what it answers
Respond(r) ==
    /\ storage' = r.store
    /\ last' = r.res
    /\ UNCHANGED <<apiConfigured, seedPc, providerCalls, ui>>

\* a handler that has to wait until no provider call is open
Handle_afterProviderCalls(r) ==
    /\ pending = {}
    /\ last = NoResponse
    /\ Respond(r)
    /\ UNCHANGED pending

\* a handler that never waits on I/O
Handle(r) ==
    /\ last = NoResponse
    /\ Respond(r)
    /\ UNCHANGED pending

\* the handler of the route `name` has answered
Routed(name) == route' = name

\* scrypt has answered: the rest of initializeSampleData runs without a wait
SeedData ==
    /\ seedPc = "hashing"
    /\ last = NoResponse
    /\ storage' = initializeSampleData(storage)
    /\ seedPc' = "done"
    /\ UNCHANGED <<apiConfigured, pending, providerCalls, last, route, ui>>

Register(username) ==
    /\ last = NoResponse
    /\ storage.userId - 1 - Seeded < MaxRegistrations
    /\ Handle(RegisterUser(storage, username))
    /\ Routed("POST /api/register")

ReqPostDevice(sess, body) ==
    /\ last = NoResponse
    /\ storage.deviceId - 1 - Seeded * NumSeedDevices < MaxNewDevices
    /\ Handle(PostDevice(storage, sess, body))
    /\ Routed("POST /api/devices")

ReqPatchDevice(sess, param, body) ==
    /\ Handle(PatchDevice(storage, sess, param, body))
    /\ Routed("PATCH /api/devices/:deviceId")

ReqDeleteDevice(sess, param) ==
    /\ Handle(DeleteDevice(storage, sess, param))
    /\ Routed("DELETE /api/devices/:deviceId")

ReqPostCategory(sess, body) ==
    /\ last = NoResponse
    /\ storage.categoryId - 1 - Seeded * NumSeedCategories < MaxNewCategories
    /\ Handle(PostCategory(storage, sess, body))
    /\ Routed("POST /api/device-categories")

ReqDeleteCategory(sess, param) ==
    /\ Handle(DeleteCategory(storage, sess, param))
    /\ Routed("DELETE /api/device-categories/:categoryId")

ReqClearChat(param) ==
    /\ Handle(ClearChat(storage, param))
    /\ Routed("DELETE /api/devices/:deviceId/chat")

ReqGetMessages(param) ==
    /\ Handle(GetMessages(storage, param))
    /\ Routed("GET /api/devices/:deviceId/messages")

ReqGetCategoryDevices(param) ==
    /\ Handle(GetCategoryDevices(storage, param))
    /\ Routed("GET /api/categories/:categoryId/devices")

ReqGetDevice(param) ==
    /\ Handle(GetDevice(storage, param))
    /\ Routed("GET /api/devices/:deviceId")

\* POST chat: refused, answered at once (no provider), or suspended
ReqChat(param, body, t1, t2) ==
    /\ last = NoResponse
    /\ LET r == PostChat(storage, apiConfigured, param, body, t1, t2)
       IN /\ r.store.messageId - 1 <= MaxMessages
          /\ storage' = r.store
          /\ last' = r.res
          /\ pending' = pending \cup r.suspended
          /\ providerCalls' = providerCalls + Cardinality(r.suspended)
          /\ Routed(IF r.suspended = {} THEN ChatRoute ELSE NoRoute)
    /\ UNCHANGED <<apiConfigured, seedPc, ui>>

\* generateContent has ended, with text or with an exception
ReqChatResume(p, outcome, t) ==
    /\ last = NoResponse
    /\ p \in pending
    /\ storage.messageId <= MaxMessages
    /\ Respond(PostChatResume(storage, p, outcome, t))
    /\ pending' = pending \ {p}
    /\ Routed(ChatRoute)

\* the response has been written to the socket
Flush ==
    /\ last # NoResponse
    /\ last' = NoResponse
    /\ route' = NoRoute
    /\ UNCHANGED <<storage, apiConfigured, seedPc, pending, providerCalls, ui>>

Next ==
    \/ SeedData
    \/ Flush
    \/ \E username \in Usernames : Register(username)
    \/ \E sess \in Sessions, body \in DeviceBodies : ReqPostDevice(sess, body)
    \/ \E sess \in Sessions, param \in DeviceParams, body \in PatchBodies \cup {BadPatchBody} :
          ReqPatchDevice(sess, param, body)
    \/ \E sess \in Sessions, param \in DeviceParams : ReqDeleteDevice(sess, param)
    \/ \E sess \in Sessions, body \in CategoryBodies : ReqPostCategory(sess, body)
    \/ \E sess \in Sessions, param \in CategoryParams : ReqDeleteCategory(sess, param)
    \/ \E param \in DeviceParams : ReqClearChat(param)
    \/ \E param \in DeviceParams : ReqGetMessages(param)
    \/ \E param \in CategoryParams : ReqGetCategoryDevices(param)
    \/ \E param \in DeviceParams : ReqGetDevice(param)
    \/ \E param \in DeviceParams, body \in ChatBodies, t1 \in Times, t2 \in Times :
          ReqChat(param, body, t1, t2)
    \/ \E p \in pending, outcome \in ProviderOutcomes, t \in Times :
          ReqChatResume(p, outcome, t)

Spec == Init /\ [][Next]_vars

----------------------------------------------------------------------------
(* The chat routes under overlapping requests: up to MaxTurns turns, each   *)
(* with room for its two messages, so that a turn can start and end while   *)
(* another one waits for the provider.                                      *)

ChatStart(param, body, t1, t2) ==
    /\ last = NoResponse
    /\ LET r == PostChat(storage, apiConfigured, param, body, t1, t2)
       IN /\ r.store.messageId - 1 + Cardinality(pending \cup r.suspended) <= 2 * MaxTurns
          /\ storage' = r.store
          /\ last' = r.res
          /\ pending' = pending \cup r.suspended
          /\ providerCalls' = providerCalls + Cardinality(r.suspended)
          /\ Routed(IF r.suspended = {} THEN ChatRoute ELSE NoRoute)
    /\ UNCHANGED <<apiConfigured, seedPc, ui>>

ChatEnd(p, outcome, t) ==
    /\ last = NoResponse
    /\ p \in pending
    /\ Respond(PostChatResume(storage, p, outcome, t))
    /\ pending' = pending \ {p}
    /\ Routed(ChatRoute)

ChatNext ==
    \/ SeedData
    \/ Flush
    \/ \E param \in DeviceParams, body \in ChatTurnBodies, t1 \in Times, t2 \in Times :
          ChatStart(param, body, t1, t2)
    \/ \E p \in pending, outcome \in ProviderOutcomes, t \in Times : ChatEnd(p, outcome, t)
    \/ \E param \in DeviceParams : ReqClearChat(param)
    \/ \E param \in DeviceParams : ReqGetMessages(param)
    \/ \E param \in DeviceParams : ReqGetDevice(param)
    \/ \E sess \in Sessions, body \in DeviceBodies : ReqPostDevice(sess, body)
    \/ \E sess \in Sessions, param \in DeviceParams : ReqDeleteDevice(sess, param)

ChatSpec == Init /\ [][ChatNext]_vars

----------------------------------------------------------------------------
(* The chat page against the server: a state update shows at the next       *)
(* render, and the handlers of a render see the state of that render.       *)

\* POST chat run to its response with no other request in between
ServeChat(S, api, param, body, t1, t2, outcome) ==
    LET r == PostChat(S, api, param, body, t1, t2)
    IN IF r.suspended = {} THEN [store |-> r.store, res |-> r.res]
       ELSE PostChatResume(r.store, CHOOSE p \in r.suspended : TRUE, outcome, t2)

UiFrame == UNCHANGED <<apiConfigured, seedPc, pending, providerCalls, last, route>>

\* React renders the component with the state as it is now
UiRender ==
    /\ ui.rendered # Shown(ui)
    /\ ui' = [ui EXCEPT !.rendered = Shown(ui)]
    /\ UNCHANGED storage /\ UiFrame

\* onChange of the input, which is disabled while isSending
UiType(text) ==
    /\ ~ui.rendered.isSending
    /\ ui.message # text
    /\ ui' = setMessage(ui, text)
    /\ UNCHANGED storage /\ UiFrame

\* handleImageSelect, behind a button that is disabled while isSending
handleImageSelect ==
    /\ ~ui.rendered.isSending
    /\ ~ui.selectedImage
    /\ ui' = setSelectedImage(ui, TRUE)
    /\ UNCHANGED storage /\ UiFrame

\* ChatInterface.handleSendMessage up to its first wait, on Enter or on the
\* send button of the render shown: past the guard it sets isSending and
\* either starts the upload or calls onSendMessage with no image
handleSendMessage ==
    /\ 1 \in DOMAIN storage.devices
    /\ ui.started < MaxSends
    /\ ~(ui.rendered.message = "" \/ ui.rendered.isSending)
    /\ LET run == [n |-> ui.started + 1, message |-> ui.rendered.message,
                   imageUrl |-> Null, res |-> NoResponse,
                   pc |-> IF ui.rendered.selectedImage THEN "uploading" ELSE "posting",
                   body |-> IF ui.rendered.selectedImage THEN NoFields
                            ELSE onSendMessage(ui.rendered.message, Undefined)]
       IN ui' = [setIsSending(ui, TRUE) EXCEPT !.sends = @ \cup {run},
                                               !.started = @ + 1]
    /\ UNCHANGED storage /\ UiFrame

\* uploadImage has returned, the URL or (after a failed upload) null, and
\* handleSendMessage calls onSendMessage(message, imageUrl || undefined)
uploadImage(run, ok) ==
    /\ run \in ui.sends
    /\ run.pc = "uploading"
    /\ LET imageUrl == IF ok THEN String(ImageUrl) ELSE Null
           next == [run EXCEPT !.imageUrl = imageUrl, !.pc = "posting",
                               !.body = onSendMessage(run.message,
                                           IF imageUrl = Null THEN Undefined ELSE imageUrl.text)]
       IN ui' = [ui EXCEPT !.sends = (@ \ {run}) \cup {next}]
    /\ UNCHANGED storage /\ UiFrame

\* the server has handled the POST of this run
UiServed(run, t1, t2, outcome) ==
    /\ run \in ui.sends
    /\ run.pc = "posting"
    /\ LET r == ServeChat(storage, apiConfigured, Param(1), run.body, t1, t2, outcome)
       IN /\ storage' = r.store
          /\ ui' = [ui EXCEPT !.sends = (@ \ {run})
                                 \cup {[run EXCEPT !.pc = "responded", !.res = r.res]}]
    /\ providerCalls' = providerCalls + (IF apiConfigured THEN 1 ELSE 0)
    /\ UNCHANGED <<apiConfigured, seedPc, pending, last, route>>

\* the request of this run fails on the way: apiRequest throws
UiFailed(run) ==
    /\ run \in ui.sends
    /\ run.pc = "posting"
    /\ ui' = [ui EXCEPT !.sends = (@ \ {run}) \cup {[run EXCEPT !.pc = "failed"]}]
    /\ UNCHANGED storage /\ UiFrame

\* the rest of handleSendMessage: after a response the form is cleared, after
\* a failure a toast is shown; finally isSending is set to false
UiSettled(run) ==
    /\ run \in ui.sends
    /\ run.pc \in {"responded", "failed"}
    /\ LET after == IF run.pc = "responded" THEN clearImage(setMessage(ui, "")) ELSE ui
       IN ui' = [setIsSending(after, FALSE) EXCEPT !.sends = @ \ {run}]
    /\ UNCHANGED storage /\ UiFrame

UiNext ==
    \/ SeedData
    \/ UiRender
    \/ UiType(UserText)
    \/ handleImageSelect
    \/ handleSendMessage
    \/ \E run \in ui.sends, ok \in BOOLEAN : uploadImage(run, ok)
    \/ \E run \in ui.sends, t1 \in Times, t2 \in Times, outcome \in ProviderOutcomes :
          UiServed(run, t1, t2, outcome)
    \/ \E run \in ui.sends : UiFailed(run)
    \/ \E run \in ui.sends : UiSettled(run)

UiSpec == Init /\ [][UiNext]_vars

----------------------------------------------------------------------------
(* Properties *)

NumericParams(params) == {p \in params : ~isNaN(parseInt(p))}

\* the device ids a request can name, or that a device or a message carries
DeviceIds(S) ==
    {parseInt(p) : p \in NumericParams(DeviceParams)} \cup DOMAIN S.devices
        \cup {S.chatMessages[i].deviceId : i \in DOMAIN S.chatMessages}

MessagesOf(S, deviceId) ==
    {S.chatMessages[i] : i \in {j \in DOMAIN S.chatMessages :
                                   S.chatMessages[j].deviceId = deviceId}}

Range(seq) == {seq[i] : i \in DOMAIN seq}

Counters(S) == <<S.categoryId, S.deviceId, S.messageId, S.userId>>

\* every entity is stored under its own id, below the counter of its type
IdsBelowCounters(S) ==
    /\ \A i \in DOMAIN S.deviceCategories :
          S.deviceCategories[i].id = i /\ i < S.categoryId
    /\ \A i \in DOMAIN S.devices : S.devices[i].id = i /\ i < S.deviceId
    /\ \A i \in DOMAIN S.chatMessages : S.chatMessages[i].id = i /\ i < S.messageId

\* a create returns the counter's value as the id, stores the entity under it
\* and moves the counter past it
CreateTakesCounter(S) ==
    /\ \A body \in CategoryBodies :
          LET r == createDeviceCategory(S, body)
          IN r.result.id = S.categoryId /\ r.store.categoryId > r.result.id
             /\ r.store.deviceCategories[r.result.id] = r.result
    /\ \A body \in DeviceBodies :
          LET r == createDevice(S, body)
          IN r.result.id = S.deviceId /\ r.store.deviceId > r.result.id
             /\ r.store.devices[r.result.id] = r.result
    /\ \A t \in Times :
          LET r == createChatMessage(S, aiMessageOf(1, ProviderReply, t))
          IN r.result.id = S.messageId /\ r.store.messageId > r.result.id
             /\ r.store.chatMessages[r.result.id] = r.result

\* C1: within each entity type the ids that the creates hand out are strictly
\* increasing in creation order: a create returns an id above every id handed
\* out before it, whether or not the entity that held it still exists.  Stated
\* on every step: each entity that appears has an id at or above the counter
\* the step started from and below the counter it ends with, entities appearing
\* together are numbered in the order of their creation, a counter never goes
\* down, and every stored entity sits under its own id below the counter.
C1_IdsStrictlyIncreasing ==
    [][ /\ CreateTakesCounter(storage)
        /\ IdsBelowCounters(storage')
        /\ \A k \in 1..4 : Counters(storage')[k] >= Counters(storage)[k]
        /\ \A i \in DOMAIN storage'.deviceCategories \ DOMAIN storage.deviceCategories :
              i >= storage.categoryId
        /\ \A i \in DOMAIN storage'.devices \ DOMAIN storage.devices :
              i >= storage.deviceId
        /\ \A i \in DOMAIN storage'.chatMessages \ DOMAIN storage.chatMessages :
              i >= storage.messageId
        /\ \A i, j \in DOMAIN storage'.chatMessages \ DOMAIN storage.chatMessages :
              (storage'.chatMessages[i].isUser /\ ~storage'.chatMessages[j].isUser)
                  => i < j
      ]_vars

\* C1 witness: device 1 was deleted and the device created afterwards got the
\* id after the last seeded one, not the freed id
C1_Witness ==
    /\ 1 \notin DOMAIN storage.devices
    /\ last.status = 201
    /\ "categoryId" \in DOMAIN last.body
    /\ last.body.id = FirstNewDevice
    /\ storage.deviceId = FirstNewDevice + 1

Admins == {sess \in Sessions : isAdmin(storage, sess)}

\* C2 (as stated): the store operation deleteDevice cascades: whatever the
\* store holds, right after deleteDevice(deviceId) returns,
\* listMessages(deviceId) is empty.
C2_StoreDeleteDeviceCascades ==
    \A id \in DeviceIds(storage) :
        getChatMessages(deleteDevice(storage, id).store, id) = <<>>

\* C2 (amended): the cascade is the DELETE /api/devices/:deviceId handler's:
\* it calls clearChatMessages(deviceId) and then deleteDevice(deviceId), so
\* whatever came before, once an administrator's request for a numeric id is
\* answered no message of that device is stored and the device is gone; the
\* store operation deleteDevice removes the device and no message.
C2_DeleteRouteCascades ==
    /\ \A sess \in Admins : \A param \in NumericParams(DeviceParams) :
          LET id == parseInt(param)
              r == DeleteDevice(storage, sess, param)
          IN /\ getChatMessages(r.store, id) = <<>>
             /\ MessagesOf(r.store, id) = {}
             /\ id \notin DOMAIN r.store.devices
             /\ r.res.status = IF id \in DOMAIN storage.devices THEN 200 ELSE 404
    /\ \A id \in DeviceIds(storage) :
          deleteDevice(storage, id).store.chatMessages = storage.chatMessages

\* C2 witness: a device was deleted while a chat request of it waited for the
\* provider; the user message that request had stored went with the device
C2_Witness ==
    /\ last = Message(200, "Device deleted successfully")
    /\ \E p \in pending :
          /\ p.deviceId \notin DOMAIN storage.devices
          /\ p.userMessageId \notin DOMAIN storage.chatMessages
          /\ getChatMessages(storage, p.deviceId) = <<>>

\* what clearChatMessages must leave alone
SameButMessages(S, T) == [S EXCEPT !.chatMessages = EmptyMap] = [T EXCEPT !.chatMessages = EmptyMap]

\* C3: clearMessages(deviceId) removes every message whose deviceId is the
\* argument and nothing else: the device's list is empty afterwards, every
\* other device's list (and every other stored message) is what it was, and
\* the devices, categories, users and id counters are untouched; the clear-chat
\* route does exactly this.
C3_ClearMessagesFrame ==
    /\ \A id \in DeviceIds(storage) :
          LET T == clearChatMessages(storage, id)
          IN /\ getChatMessages(T, id) = <<>>
             /\ MessagesOf(T, id) = {}
             /\ \A d \in DeviceIds(storage) \ {id} :
                   getChatMessages(T, d) = getChatMessages(storage, d)
             /\ \A i \in DOMAIN storage.chatMessages :
                   storage.chatMessages[i].deviceId # id
                       => i \in DOMAIN T.chatMessages
                          /\ T.chatMessages[i] = storage.chatMessages[i]
             /\ DOMAIN T.chatMessages \subseteq DOMAIN storage.chatMessages
             /\ SameButMessages(T, storage)
    /\ \A param \in NumericParams(DeviceParams) :
          ClearChat(storage, param).store = clearChatMessages(storage, parseInt(param))

\* C3 witness: the history of one device was cleared (the user message of a
\* request that waits for the provider went with it) and a message of another
\* device is still stored
C3_Witness ==
    /\ last = Message(200, "Chat history cleared")
    /\ \E p \in pending :
          /\ p.userMessageId \notin DOMAIN storage.chatMessages
          /\ getChatMessages(storage, p.deviceId) = <<>>
          /\ \E i \in DOMAIN storage.chatMessages :
                storage.chatMessages[i].deviceId # p.deviceId

\* C4: in every reachable state and for every deviceId, listMessages(deviceId)
\* returns exactly the stored messages of that device (each once, none of
\* another device), ordered by timestamp ascending: no message is followed by
\* one with an earlier timestamp.
C4_ListMessagesSorted ==
    \A id \in DeviceIds(storage) :
        LET list == getChatMessages(storage, id)
        IN /\ Range(list) = MessagesOf(storage, id)
           /\ Len(list) = Cardinality(MessagesOf(storage, id))
           /\ \A i \in 1..(Len(list) - 1) :
                 getTime(list[i].timestamp) <= getTime(list[i + 1].timestamp)

\* C4 witness: GET messages answered with two messages in the order of their
\* timestamps, which is not the order of their creation
C4_Witness ==
    /\ last.status = 200
    /\ "messages" \in DOMAIN last.body
    /\ Len(last.body.messages) = 2
    /\ last.body.messages[1].id > last.body.messages[2].id
    /\ getTime(last.body.messages[1].timestamp) < getTime(last.body.messages[2].timestamp)

\* C5: an administrator's DELETE /api/device-categories/:categoryId for a
\* category that at least one device references is refused with the Conflict
\* outcome (the reply that names the existing devices, a client error), and
\* the store, so the sets of categories and of devices, is left as it was.
C5_CategoryWithDevicesRefused ==
    \A sess \in Admins : \A param \in NumericParams(CategoryParams) :
        (\E d \in DOMAIN storage.devices : storage.devices[d].categoryId = parseInt(param))
            => LET r == DeleteCategory(storage, sess, param)
               IN /\ r.res = Message(400, CategoryHasDevices)
                  /\ r.store = storage

\* C5 witness: the refusal was sent for a category that is stored and that a
\* device references
C5_Witness ==
    /\ last = Message(400, CategoryHasDevices)
    /\ Admins # {}
    /\ \E c \in DOMAIN storage.deviceCategories :
          \E d \in DOMAIN storage.devices : storage.devices[d].categoryId = c

\* C6 (as stated; the code answers 501 "Category deletion not implemented" and
\* keeps the category): an administrator's DELETE
\* /api/device-categories/:categoryId for an existing category that no device
\* references deletes it: afterwards neither listCategories nor
\* getCategory(categoryId) returns it.
C6_EmptyCategoryDeleted ==
    \A sess \in Admins : \A param \in NumericParams(CategoryParams) :
        LET id == parseInt(param)
            r == DeleteCategory(storage, sess, param)
        IN (getDeviceCategory(storage, id) # Undefined
                /\ getDevicesByCategory(storage, id) = <<>>)
            => /\ getDeviceCategory(r.store, id) = Undefined
               /\ \A c \in Range(getAllDeviceCategories(r.store)) : c.id # id

NonAdminSessions ==
    {sess \in Sessions : sess = Anonymous \/ ~storage.users[sess].isAdmin}

\* the replies of the five admin-only endpoints to a session, over the
\* requests of the model
AdminEndpointReplies(sess) ==
    {PostDevice(storage, sess, body) : body \in DeviceBodies}
        \cup {PatchDevice(storage, sess, param, body) :
                 param \in DeviceParams, body \in PatchBodies \cup {BadPatchBody}}
        \cup {DeleteDevice(storage, sess, param) : param \in DeviceParams}
        \cup {PostCategory(storage, sess, body) : body \in CategoryBodies}
        \cup {DeleteCategory(storage, sess, param) : param \in CategoryParams}

\* C7 (as stated; the code answers both callers 401 "Admin access required"):
\* every admin-only endpoint answers an anonymous caller with Unauthorized
\* (401) and an authenticated caller who is no administrator with Forbidden
\* (403), two different statuses.
C7_UnauthorizedOrForbidden ==
    \A sess \in NonAdminSessions : \A r \in AdminEndpointReplies(sess) :
        /\ r.res.status = IF sess = Anonymous THEN 401 ELSE 403
        /\ sess # Anonymous =>
              \A a \in AdminEndpointReplies(Anonymous) : a.res.status # r.res.status

\* C8: no request of an anonymous session or of a session whose user is no
\* administrator changes the devices or the categories: each of the five
\* admin-only endpoints (create, update, delete device; create, delete
\* category) rejects such a request and leaves the whole store as it was, and
\* the endpoints open to everyone (chat, its resumption, clear chat, messages,
\* registration) change neither map.
C8_NonAdminChangesNothing ==
    /\ \A sess \in NonAdminSessions : \A r \in AdminEndpointReplies(sess) :
          r.store = storage /\ r.res.status = 401
    /\ \A T \in {ClearChat(storage, param).store : param \in DeviceParams}
              \cup {GetMessages(storage, param).store : param \in DeviceParams}
              \cup {PostChat(storage, apiConfigured, param, body, t1, t2).store :
                       param \in DeviceParams, body \in ChatBodies,
                       t1 \in Times, t2 \in Times}
              \cup {PostChatResume(storage, p, outcome, t).store :
                       p \in pending, outcome \in ProviderOutcomes, t \in Times}
              \cup {RegisterUser(storage, username).store : username \in Usernames} :
          T.devices = storage.devices /\ T.deviceCategories = storage.deviceCategories

\* C8 witness: a logged-in user who is no administrator was turned away from
\* an admin-only endpoint
C8_Witness ==
    /\ last.status = 401
    /\ last.user # Anonymous
    /\ last.user \in NonAdminSessions
    /\ last.body.message = "Admin access required"

\* the chat requests the route accepts: an existing device, a non-empty message
AcceptedChats ==
    {<<param, body>> \in NumericParams(DeviceParams) \X ChatBodies :
        /\ parseInt(param) \in DOMAIN storage.devices
        /\ "message" \in DOMAIN body
        /\ body.message # ""}

\* the list holds, under the id, the message the handler built
Listed(S, id, message) ==
    \E m \in Range(getChatMessages(S, message.deviceId)) : m = [id |-> id] @@ message

\* C9: with no provider credential configured, POST /api/devices/:deviceId/chat
\* for an existing device and a non-empty message makes no provider call (the
\* handler answers without waiting, and no call is ever counted or pending),
\* answers 200 with aiMessage.message the fixed fallback string, and afterwards
\* listMessages(deviceId) holds both the user message and the assistant's.
C9_NoCredentialFallback ==
    ~apiConfigured =>
        /\ providerCalls = 0
        /\ pending = {}
        /\ \A c \in AcceptedChats : \A t1, t2 \in Times :
              LET r == PostChat(storage, apiConfigured, c[1], c[2], t1, t2)
              IN /\ r.suspended = {}
                 /\ r.res.status = 200
                 /\ r.res.body.aiMessage.message = FallbackText
                 /\ r.res.body.userMessage.message = c[2].message
                 /\ Listed(r.store, storage.messageId, r.res.body.userMessage)
                 /\ Listed(r.store, storage.messageId + 1, r.res.body.aiMessage)

\* C9 witness: without a credential a chat request was answered with the
\* fallback, both messages are listed and no provider call was made
C9_Witness ==
    /\ ~apiConfigured
    /\ last.status = 200
    /\ "aiMessage" \in DOMAIN last.body
    /\ last.body.aiMessage.message = FallbackText
    /\ providerCalls = 0
    /\ \E i \in DOMAIN storage.chatMessages :
          /\ Listed(storage, i, last.body.userMessage)
          /\ Listed(storage, i + 1, last.body.aiMessage)

ProviderFailures == {outcome \in ProviderOutcomes : ~outcome.ok}

\* the texts a reply of POST chat carries
ResponseTexts(res) ==
    {res.body[f] : f \in DOMAIN res.body \cap {"message", "error"}}
        \cup {res.body[f].message : f \in DOMAIN res.body \cap {"userMessage", "aiMessage"}}

\* C10: when the provider call throws, getChatResponse does not let the
\* exception through: it returns the same fixed apology whatever the error, so
\* POST chat answers 200 with a body of userMessage and aiMessage, the error
\* text is in no part of the response, the apology is stored as the
\* assistant's message and nothing stored is lost; the user message was stored
\* before the provider was called.
C10_ProviderErrorHidden ==
    /\ \A p \in pending : \A outcome \in ProviderFailures : \A t \in Times :
          LET r == PostChatResume(storage, p, outcome, t)
          IN /\ r.res.status = 200
             /\ DOMAIN r.res.body = {"userMessage", "aiMessage"}
             /\ r.res.body.userMessage = p.userMessage
             /\ r.res.body.aiMessage.message = ApologyText
             /\ outcome.text \notin ResponseTexts(r.res)
             /\ Listed(r.store, storage.messageId, r.res.body.aiMessage)
             /\ \A i \in DOMAIN storage.chatMessages :
                   i \in DOMAIN r.store.chatMessages
                       /\ r.store.chatMessages[i] = storage.chatMessages[i]
    /\ apiConfigured =>
          \A c \in AcceptedChats : \A t1, t2 \in Times :
              LET r == PostChat(storage, apiConfigured, c[1], c[2], t1, t2)
              IN \A p \in r.suspended :
                    /\ p.userMessageId = storage.messageId
                    /\ Listed(r.store, p.userMessageId, p.userMessage)

\* C10 witness: the provider call failed and the request was answered 200 with
\* the apology; the user message and the apology are both listed
C10_Witness ==
    /\ last.status = 200
    /\ "aiMessage" \in DOMAIN last.body
    /\ last.body.aiMessage.message = ApologyText
    /\ providerCalls > 0
    /\ \E i, j \in DOMAIN storage.chatMessages :
          /\ i < j
          /\ Listed(storage, i, last.body.userMessage)
          /\ Listed(storage, j, last.body.aiMessage)

\* the device ids handed out so far that no device holds any more
Gone(S) == {id \in 1..(S.deviceId - 1) : id \notin DOMAIN S.devices}

DeviceNotFound == Message(404, "Device not found")

\* C11: after an administrator's DELETE /api/devices/:id succeeds, GET
\* /api/devices/:id answers NotFound (404), and it keeps answering NotFound
\* whatever happens later: on every step, a device id that was handed out and
\* is held by no device stays so (no later createDevice brings it back), every
\* device that disappears in the step joins these ids, and GET answers 404 for
\* each of them; and the store a successful DELETE leaves makes GET answer 404.
C11_DeletedStaysNotFound ==
    [][ /\ Gone(storage) \subseteq Gone(storage')
        /\ (DOMAIN storage.devices \ DOMAIN storage'.devices) \subseteq Gone(storage')
        /\ \A id \in Gone(storage') : GetDevice(storage', Param(id)).res = DeviceNotFound
        /\ \A sess \in Admins : \A param \in NumericParams(DeviceParams) :
              LET r == DeleteDevice(storage, sess, param)
              IN r.res.status = 200 => GetDevice(r.store, param).res = DeviceNotFound
      ]_vars

\* C11 witness: device 1 was deleted, a device was created afterwards, and GET
\* /api/devices/1 has just answered 404
C11_Witness ==
    /\ route = "GET /api/devices/:deviceId"
    /\ last = DeviceNotFound
    /\ 1 \in Gone(storage)
    /\ FirstNewDevice \in DOMAIN storage.devices

\* the first createDeviceCategory on the store S and then the first
\* createDevice, of a device of that category
FirstCreates(S, category, device) ==
    LET c == createDeviceCategory(S, category)
        d == createDevice(c.store, [device EXCEPT !.categoryId = c.result.id])
    IN [category |-> c.result, device |-> d.result, store |-> d.store]

Added(S, T) ==
    IF \A i \in DOMAIN S.chatMessages :
          i \in DOMAIN T.chatMessages /\ T.chatMessages[i] = S.chatMessages[i]
    THEN {T.chatMessages[i] : i \in DOMAIN T.chatMessages \ DOMAIN S.chatMessages}
    ELSE {Undefined}

ReplyText(outcome) == IF outcome.ok THEN outcome.text ELSE ApologyText

\* C13: every completed chat turn (POST chat answered 200) adds exactly two
\* messages to that device's transcript, one with isUser = TRUE carrying the
\* user's text and one with isUser = FALSE carrying the reply, and adds no
\* message to another device's transcript.  The handler makes its two
\* createChatMessage calls either in one step (no provider: both messages
\* appear together) or one before and one after the provider call (the first
\* step adds the user message alone, the second the reply alone); neither step
\* touches a stored message.
C13_TwoMessagesPerTurn ==
    /\ \A c \in AcceptedChats : \A t1, t2 \in Times :
          LET r == PostChat(storage, apiConfigured, c[1], c[2], t1, t2)
              id == parseInt(c[1])
              user == [id |-> storage.messageId] @@ userMessageOf(id, c[2], t1)
          IN /\ user.isUser /\ user.message = c[2].message /\ user.deviceId = id
             /\ IF r.suspended = {}
                THEN /\ r.res.status = 200
                     /\ Added(storage, r.store) =
                           {user, [id |-> storage.messageId + 1] @@ r.res.body.aiMessage}
                     /\ ~r.res.body.aiMessage.isUser
                     /\ r.res.body.aiMessage.deviceId = id
                     /\ r.store.messageId = storage.messageId + 2
                ELSE /\ Added(storage, r.store) = {user}
                     /\ r.store.messageId = storage.messageId + 1
                     /\ \A p \in r.suspended : p.deviceId = id /\ p.userMessage.message = c[2].message
    /\ \A p \in pending : \A outcome \in ProviderOutcomes : \A t \in Times :
          LET r == PostChatResume(storage, p, outcome, t)
          IN /\ r.res.status = 200
             /\ r.res.body.userMessage = p.userMessage
             /\ r.res.body.aiMessage =
                   [deviceId |-> p.deviceId, isUser |-> FALSE,
                    message |-> ReplyText(outcome), timestamp |-> toISOString(t)]
             /\ Added(storage, r.store) = {[id |-> storage.messageId] @@ r.res.body.aiMessage}
             /\ r.store.messageId = storage.messageId + 1
    /\ \A p \in pending : p.userMessageId < storage.messageId /\ p.userMessage.isUser

\* C13 witness: a turn with the provider was answered 200; the transcript of
\* its device holds its two messages, the user's and the provider's reply, and
\* nothing else
C13_Witness ==
    /\ route = ChatRoute
    /\ last.status = 200
    /\ last.body.aiMessage.message = ProviderReply
    /\ \E i, j \in DOMAIN storage.chatMessages :
          /\ i < j
          /\ getChatMessages(storage, last.body.userMessage.deviceId)
                \in {<<storage.chatMessages[i], storage.chatMessages[j]>>,
                     <<storage.chatMessages[j], storage.chatMessages[i]>>}
          /\ storage.chatMessages[i] = [id |-> i] @@ last.body.userMessage
          /\ storage.chatMessages[j] = [id |-> j] @@ last.body.aiMessage

\* the partial inputs the PATCH route hands to updateDevice: any of the
\* fields of a request body that the schema keeps
PartialInputs == {Pick(body, F) : body \in PatchBodies, F \in SUBSET DeviceFields}

\* C14: updateDevice(id, partialInput) on an unknown id returns not-found and
\* changes nothing in the store; on a known id it returns and stores the
\* device with exactly the supplied fields replaced, while its id, every field
\* not supplied, every other device and all messages (and the rest of the
\* store) are unchanged.  The PATCH route hands it the body's schema fields
\* (an id in the body is dropped) and answers 404 on not-found.
C14_UpdateDeviceFrame ==
    /\ \A id \in DeviceIds(storage) : \A data \in PartialInputs :
          LET r == updateDevice(storage, id, data)
          IN IF id \notin DOMAIN storage.devices
             THEN r.result = Undefined /\ r.store = storage
             ELSE LET old == storage.devices[id]
                  IN /\ r.store.devices[id] = r.result
                     /\ r.result.id = id
                     /\ DOMAIN r.result = DOMAIN old \cup DOMAIN data
                     /\ \A f \in DOMAIN data : r.result[f] = data[f]
                     /\ \A f \in DOMAIN old \ DOMAIN data : r.result[f] = old[f]
                     /\ [r.store EXCEPT !.devices[id] = old] = storage
    /\ \A sess \in Admins : \A param \in NumericParams(DeviceParams) :
       \A body \in PatchBodies :
          LET r == PatchDevice(storage, sess, param, body)
              u == updateDevice(storage, parseInt(param), Pick(body, DeviceFields))
          IN /\ r.store = u.store
             /\ IF parseInt(param) \in DOMAIN storage.devices
                THEN r.res.status = 200 /\ r.res.body = u.result
                                        /\ r.res.body.id = parseInt(param)
                ELSE r.res = DeviceNotFound /\ r.store = storage

\* C14 witness: PATCH has replaced the category and the specifications of a
\* device that keeps its id and its name, while a message is stored
C14_Witness ==
    /\ route = "PATCH /api/devices/:deviceId"
    /\ last.status = 200
    /\ storage.devices[last.body.id] = last.body
    /\ last.body.specifications = "s2"
    /\ last.body.categoryId = FirstNewCategory
    /\ last.body.name = SeedDevices[1].name
    /\ DOMAIN storage.chatMessages # {}

UsernamesUnique(S) ==
    \A i, j \in DOMAIN S.users : S.users[i].username = S.users[j].username => i = j

\* C15 (as stated; createUser stores the user without a look for the
\* username): usernames are unique: in every reachable state of the store no
\* two users have the same username, whatever createUser calls are made.
C15_UsernamesUnique ==
    /\ UsernamesUnique(storage)
    /\ \A username \in Usernames \cup {"admin"} :
          UsernamesUnique(createUser(storage, [username |-> username]).store)

\* the statuses an administrator gets for each kind of outcome
NotFoundStatuses(sess) ==
    {PatchDevice(storage, sess, param, body).res.status :
        param \in {q \in NumericParams(DeviceParams) : parseInt(q) \notin DOMAIN storage.devices},
        body \in PatchBodies}
      \cup {DeleteDevice(storage, sess, param).res.status :
              param \in {q \in NumericParams(DeviceParams) : parseInt(q) \notin DOMAIN storage.devices}}
      \cup {DeleteCategory(storage, sess, param).res.status :
              param \in {q \in NumericParams(CategoryParams) :
                            /\ parseInt(q) \notin DOMAIN storage.deviceCategories
                            /\ getDevicesByCategory(storage, parseInt(q)) = <<>>}}

ValidationStatuses(sess) ==
    {PatchDevice(storage, sess, param, BadPatchBody).res.status :
        param \in NumericParams(DeviceParams)}
      \cup {PatchDevice(storage, sess, NonNumericParam, body).res.status : body \in PatchBodies}
      \cup {DeleteCategory(storage, sess, NonNumericParam).res.status}
      \cup {PostDevice(storage, sess, body).res.status :
              body \in {b \in DeviceBodies : ~insertDeviceSchemaOk(b)}}
      \cup {PostCategory(storage, sess, body).res.status :
              body \in {b \in CategoryBodies : ~insertDeviceCategorySchemaOk(b)}}

ConflictStatuses(sess) ==
    {DeleteCategory(storage, sess, param).res.status :
        param \in {q \in NumericParams(CategoryParams) :
                      getDevicesByCategory(storage, parseInt(q)) # <<>>}}

\* C16 (as stated; the code reports Conflict with 400, the status of
\* ValidationError): the outcomes NotFound (unknown id), ValidationError
\* (malformed request) and Conflict (deleting a category that devices still
\* reference) are reported with pairwise distinct HTTP statuses.
C16_DistinctStatuses ==
    \A sess \in Admins :
        /\ NotFoundStatuses(sess) \cap ValidationStatuses(sess) = {}
        /\ NotFoundStatuses(sess) \cap ConflictStatuses(sess) = {}
        /\ ValidationStatuses(sess) \cap ConflictStatuses(sess) = {}

\* the chat requests the route rejects
RejectedChats == (DeviceParams \X ChatBodies) \ AcceptedChats

\* C17: a POST /api/devices/:deviceId/chat that is rejected (a body without a
\* non-empty message, a device id that is no number, or one that no device
\* has) creates no chat message, makes no provider call and leaves the store
\* unchanged; it is answered 400, 400 and 404.
C17_RejectedChatChangesNothing ==
    \A c \in RejectedChats : \A t1, t2 \in Times :
        LET r == PostChat(storage, apiConfigured, c[1], c[2], t1, t2)
        IN /\ r.store = storage
           /\ r.suspended = {}
           /\ r.res = IF ~("message" \in DOMAIN c[2] /\ c[2].message # "")
                      THEN Message(400, "Invalid message format")
                      ELSE IF isNaN(parseInt(c[1]))
                      THEN Message(400, "Invalid device ID")
                      ELSE DeviceNotFound

\* C17 witness: with a provider configured, a chat with a device that was
\* deleted has been answered 404; no message is stored, no provider call made
C17_Witness ==
    /\ route = ChatRoute
    /\ last = DeviceNotFound
    /\ apiConfigured
    /\ 1 \in Gone(storage)
    /\ storage.chatMessages = EmptyMap
    /\ storage.messageId = 1
    /\ providerCalls = 0
    /\ pending = {}

\* the records of a map that a step keeps are the records they were
Kept(old, new) == \A i \in DOMAIN old \cap DOMAIN new : new[i] = old[i]

\* the step's creates took the ids from the counter on, one each
TookIds(old, new, counter, counterAfter) ==
    /\ DOMAIN new \ DOMAIN old = counter..(counterAfter - 1)
    /\ \A i \in DOMAIN new \ DOMAIN old : new[i].id = i

\* C18: for any interleaving of requests handled at the same time, each create
\* is atomic: no two creates of one entity type obtain the same id, and no
\* created record is lost or overwritten by another request's create.  On
\* every step, also one between the two creates of a chat turn that waits for
\* the provider, the records that appear hold the ids from the counter on, one
\* id each; every record that was stored is still stored as it was, unless the
\* step is a PATCH of that device, a clear-chat or a device delete; and the
\* user message of every waiting turn got an id below the counter, its own.
C18_CreatesAtomic ==
    [][ /\ TookIds(storage.chatMessages, storage'.chatMessages,
                   storage.messageId, storage'.messageId)
        /\ TookIds(storage.devices, storage'.devices, storage.deviceId, storage'.deviceId)
        /\ TookIds(storage.deviceCategories, storage'.deviceCategories,
                   storage.categoryId, storage'.categoryId)
        /\ Kept(storage.chatMessages, storage'.chatMessages)
        /\ Kept(storage.deviceCategories, storage'.deviceCategories)
        /\ Kept(storage.devices, storage'.devices)
              \/ route' = "PATCH /api/devices/:deviceId"
        /\ DOMAIN storage.deviceCategories \subseteq DOMAIN storage'.deviceCategories
        /\ DOMAIN storage.devices \subseteq DOMAIN storage'.devices
              \/ route' = "DELETE /api/devices/:deviceId"
        /\ DOMAIN storage.chatMessages \subseteq DOMAIN storage'.chatMessages
              \/ route' \in {"DELETE /api/devices/:deviceId",
                             "DELETE /api/devices/:deviceId/chat"}
        /\ \A p, q \in pending' :
              /\ p.userMessageId < storage'.messageId
              /\ p.userMessageId = q.userMessageId => p = q
      ]_vars

\* C18 witness: two turns overlap: the first has been answered while the
\* second waits for the provider; the first's messages have the ids 1 and 3,
\* the second's user message the id 2
C18_Witness ==
    /\ route = ChatRoute
    /\ last.status = 200
    /\ DOMAIN storage.chatMessages = {1, 2, 3}
    /\ storage.chatMessages[1] = [id |-> 1] @@ last.body.userMessage
    /\ storage.chatMessages[3] = [id |-> 3] @@ last.body.aiMessage
    /\ \E p \in pending : p.userMessageId = 2 /\ storage.chatMessages[2] = [id |-> 2] @@ p.userMessage

\* C19: each accepted chat turn (valid body, existing device, credential
\* configured) issues exactly one request to the provider, whether that
\* request succeeds or throws: never zero and never a retry.  The handler of
\* an accepted request stops at one call, of the prompt built from the device
\* and the message; whatever the call's outcome, the handler then answers and
\* calls no more; so the calls made so far are one per turn: each turn has
\* stored one message when it calls and one more when it ends.
C19_OneProviderCallPerTurn ==
    apiConfigured =>
        /\ \A c \in AcceptedChats : \A t1, t2 \in Times :
              LET r == PostChat(storage, apiConfigured, c[1], c[2], t1, t2)
              IN /\ Cardinality(r.suspended) = 1
                 /\ r.res = NoResponse
                 /\ \A p \in r.suspended :
                       p.sent = systemPrompt(storage.devices[parseInt(c[1])],
                                             promptOf(Pick(c[2], {"message", "imageUrl"})))
        /\ \A p \in pending : \A outcome \in ProviderOutcomes : \A t \in Times :
              LET r == PostChatResume(storage, p, outcome, t)
              IN DOMAIN r = {"store", "res"} /\ r.res.status = 200
        /\ storage.messageId - 1 = 2 * providerCalls - Cardinality(pending)
        /\ Cardinality(pending) <= providerCalls

\* C19 witness: two turns have ended, one with the provider's text and one
\* with the apology for its exception, and two provider calls were made
C19_Witness ==
    /\ apiConfigured
    /\ providerCalls = 2
    /\ pending = {}
    /\ \E i, j \in DOMAIN storage.chatMessages :
          /\ storage.chatMessages[i].message = ProviderReply
          /\ storage.chatMessages[j].message = ApologyText

\* the stores the requests other than the waiting turn p can leave, clear-chat
\* and device delete of p's device aside
StoresOfOthers(p) ==
    {GetMessages(storage, param).store : param \in DeviceParams}
      \cup {GetDevice(storage, param).store : param \in DeviceParams}
      \cup {ClearChat(storage, param).store :
               param \in {q \in DeviceParams : parseInt(q) # p.deviceId}}
      \cup {DeleteDevice(storage, sess, param).store :
               sess \in Sessions, param \in {q \in DeviceParams : parseInt(q) # p.deviceId}}
      \cup {PostDevice(storage, sess, body).store : sess \in Sessions, body \in DeviceBodies}
      \cup {PatchDevice(storage, sess, param, body).store :
               sess \in Sessions, param \in DeviceParams, body \in PatchBodies}
      \cup {PostChat(storage, apiConfigured, param, body, t1, t2).store :
               param \in DeviceParams, body \in ChatBodies, t1 \in Times, t2 \in Times}
      \cup {PostChatResume(storage, q, outcome, t).store :
               q \in pending \ {p}, outcome \in ProviderOutcomes, t \in Times}

QueryOf(p) == SubSeq(p.sent, Len(systemPrompt(p.device, <<>>)) + 1, Len(p.sent))

AcceptedTurns ==
    {<<param, body>> \in NumericParams(DeviceParams) \X ChatTurnBodies :
        /\ parseInt(param) \in DOMAIN storage.devices
        /\ "message" \in DOMAIN body
        /\ body.message # ""}

\* C21 (as stated): the text handed to the provider contains the note naming
\* the image URL if and only if the request carried an imageUrl.
C21_NoteIffImageUrlCarried ==
    \A p \in pending :
        ImageNote \in Range(p.sent) <=> "imageUrl" \in DOMAIN p.userMessage

\* C21 (amended): the text handed to the provider ends with the user's message
\* verbatim, followed by the note naming the image URL if and only if the
\* request carried a non-empty imageUrl (an imageUrl of "" passes the schema
\* and is stored, and gets no note); the message stored as the user's chat
\* record is the text of the request without the note, with the imageUrl of
\* the request beside it.
C21_NoteIffNonEmptyImageUrl ==
    /\ \A c \in AcceptedTurns : \A t1, t2 \in Times :
          LET r == PostChat(storage, TRUE, c[1], c[2], t1, t2)
              stored == r.store.chatMessages[storage.messageId]
          IN /\ stored.message = c[2].message
             /\ "imageUrl" \in DOMAIN stored <=> "imageUrl" \in DOMAIN c[2]
             /\ "imageUrl" \in DOMAIN c[2] => stored.imageUrl = c[2].imageUrl
             /\ \A p \in r.suspended :
                   /\ [id |-> storage.messageId] @@ p.userMessage = stored
                   /\ QueryOf(p) =
                         IF "imageUrl" \in DOMAIN c[2] /\ c[2].imageUrl # ""
                         THEN <<c[2].message, ImageNote, c[2].imageUrl, ImageRequest>>
                         ELSE <<c[2].message>>
    /\ \A p \in pending :
          /\ Head(QueryOf(p)) = p.userMessage.message
          /\ ImageNote \in Range(p.sent) <=>
                ("imageUrl" \in DOMAIN p.userMessage /\ p.userMessage.imageUrl # "")
          /\ ImageNote \in Range(p.sent) =>
                QueryOf(p) = <<p.userMessage.message, ImageNote,
                               p.userMessage.imageUrl, ImageRequest>>
          /\ p.userMessage.message \notin {ImageNote, ImageRequest}
          /\ p.userMessageId \in DOMAIN storage.chatMessages =>
                storage.chatMessages[p.userMessageId] =
                    [id |-> p.userMessageId] @@ p.userMessage

\* C21 witness: two turns wait for the provider, their user messages stored
\* with the text alone; one came with an image URL and its prompt has the
\* note, the other came with the imageUrl "" and its prompt has none
C21_Witness ==
    \E p, q \in pending :
        /\ "imageUrl" \in DOMAIN p.userMessage \cap DOMAIN q.userMessage
        /\ {p.userMessageId, q.userMessageId} \subseteq DOMAIN storage.chatMessages
        /\ p.userMessage.imageUrl = ImageUrl
        /\ QueryOf(p) = <<UserText, ImageNote, ImageUrl, ImageRequest>>
        /\ q.userMessage.imageUrl = ""
        /\ QueryOf(q) = <<UserText>>
        /\ storage.chatMessages[p.userMessageId].message = UserText
        /\ storage.chatMessages[q.userMessageId].message = UserText

\* category ids: the first seeded one, the first a client can create, and the
\* next to be handed out, which no category has
CategoryIdsTried(S) == {1, FirstNewCategory, S.categoryId}

Dangling(S) == {i \in DOMAIN S.devices : S.devices[i].categoryId \notin DOMAIN S.deviceCategories}

\* C22: the store does not enforce referential integrity of categoryId:
\* createDevice and updateDevice succeed for any categoryId, that of a stored
\* category or not, and store the device with it; so do POST /api/devices and
\* PATCH /api/devices/:deviceId for an administrator.  A state in which a
\* device's categoryId matches no existing category is therefore reachable
\* (the witness).
C22_NoReferentialIntegrity ==
    \A cid \in CategoryIdsTried(storage) :
        /\ \A body \in {b \in DeviceBodies : insertDeviceSchemaOk(b)} :
              LET device == [body EXCEPT !.categoryId = cid]
                  r == createDevice(storage, device)
              IN /\ r.result = [id |-> storage.deviceId] @@ device
                 /\ r.store.devices[storage.deviceId].categoryId = cid
                 /\ \A sess \in Admins :
                       LET q == PostDevice(storage, sess, device)
                       IN q.res.status = 201 /\ q.store = r.store
        /\ \A id \in DOMAIN storage.devices :
              LET r == updateDevice(storage, id, [categoryId |-> cid])
              IN /\ r.result # Undefined
                 /\ r.store.devices[id].categoryId = cid
                 /\ \A sess \in Admins :
                       LET q == PatchDevice(storage, sess, Param(id), [categoryId |-> cid])
                       IN q.res.status = 200 /\ q.store = r.store

\* C22 witness: no category 8 exists; PATCH moved the seeded device 1 to it and
\* POST created device 9 in it
C22_Witness ==
    /\ FirstNewCategory \notin DOMAIN storage.deviceCategories
    /\ {1, FirstNewDevice} \subseteq Dangling(storage)
    /\ storage.devices[1].categoryId = FirstNewCategory
    /\ storage.devices[FirstNewDevice].categoryId = FirstNewCategory

\* C23: in every reachable state, under any interleaving of requests (an
\* administrator's DELETE /api/devices/:id while a POST chat of that device
\* waits for the provider included), every stored chat message's deviceId is
\* that of a device in the store: no message outlives its device.
C23_NoMessageOutlivesDevice ==
    \A i \in DOMAIN storage.chatMessages :
        storage.chatMessages[i].deviceId \in DOMAIN storage.devices

\* C24: whenever no chat request is in flight, every device's transcript holds
\* as many user messages as assistant messages, also after a
\* DELETE /api/devices/:deviceId/chat that ran while a chat turn of that
\* device waited for the provider.
C24_TranscriptsBalanced ==
    pending = {} =>
        \A id \in DeviceIds(storage) :
            Cardinality({m \in MessagesOf(storage, id) : m.isUser})
                = Cardinality({m \in MessagesOf(storage, id) : ~m.isUser})

\* the place of the message with this id in a list
IndexOf(list, id) == CHOOSE i \in 1..Len(list) : list[i].id = id

\* the reply of the turn goes behind the turn's user message in the list
UserBeforeReply(T, deviceId, userMessageId, replyId) ==
    LET list == getChatMessages(T, deviceId)
    IN IndexOf(list, userMessageId) < IndexOf(list, replyId)

\* the waiting turns whose user message is still stored
StoredTurns == {p \in pending : p.userMessageId \in DOMAIN storage.chatMessages}

\* C25 (as stated): for every chat turn whose two messages are both stored,
\* the user message comes before its assistant reply in
\* listMessages(deviceId), under any interleaving of concurrent turns.
C25_UserBeforeReply ==
    \A p \in StoredTurns : \A outcome \in ProviderOutcomes : \A t \in Times :
        UserBeforeReply(PostChatResume(storage, p, outcome, t).store,
                        p.deviceId, p.userMessageId, storage.messageId)

\* C25 (amended): listMessages(deviceId) is ordered by timestamp and, among
\* equal timestamps, by increasing id; so for every chat turn whose two
\* messages are both stored, the user message comes before its reply provided
\* the reply's timestamp is not earlier than the user message's, that is, the
\* wall clock did not step back between the handler's two readings (equal
\* readings included), under any interleaving of concurrent turns of the
\* device.  With a reply stamped earlier, the reply is listed first.
C25_UserBeforeReplyUnlessClockStepsBack ==
    /\ \A id \in DeviceIds(storage) :
          LET list == getChatMessages(storage, id)
          IN \A i, j \in 1..Len(list) :
                i < j => \/ getTime(list[i].timestamp) < getTime(list[j].timestamp)
                         \/ /\ list[i].timestamp = list[j].timestamp
                            /\ list[i].id < list[j].id
    /\ \A p \in StoredTurns : \A outcome \in ProviderOutcomes : \A t \in Times :
          UserBeforeReply(PostChatResume(storage, p, outcome, t).store,
                          p.deviceId, p.userMessageId, storage.messageId)
              <=> getTime(p.userMessage.timestamp) <= t
    /\ \A c \in AcceptedTurns : \A t1, t2 \in Times :
          LET r == PostChat(storage, FALSE, c[1], c[2], t1, t2)
          IN UserBeforeReply(r.store, parseInt(c[1]), storage.messageId, storage.messageId + 1)
                <=> t1 <= t2

\* C25 witness: two turns of one device overlapped and all four messages
\* carry the same timestamp; the second turn was answered first, and the list
\* is in id order, each user message before its reply
C25_Witness ==
    /\ route = ChatRoute
    /\ last.status = 200
    /\ pending = {}
    /\ LET list == getChatMessages(storage, last.body.userMessage.deviceId)
       IN /\ Len(list) = 4
          /\ \A i \in 1..4 : list[i].id = i /\ list[i].timestamp = list[1].timestamp
          /\ list[1].isUser /\ list[2].isUser /\ ~list[3].isUser /\ ~list[4].isUser
          /\ [id |-> 2] @@ last.body.userMessage = list[2]
          /\ [id |-> 4] @@ last.body.aiMessage = list[4]

\* C26: an administrator's DELETE /api/devices/:deviceId for an id that is not
\* in the store answers NotFound and leaves the whole store unchanged, the chat
\* messages stored under that deviceId included.
C26_DeleteUnknownDeviceChangesNothing ==
    \A sess \in Admins : \A param \in NumericParams(DeviceParams) :
        parseInt(param) \notin DOMAIN storage.devices =>
            LET r == DeleteDevice(storage, sess, param)
            IN r.res = DeviceNotFound /\ r.store = storage

\* the stores an administrator's update or delete of the device of the waiting
\* turn p leaves
StoresAfterChangeOf(p) ==
    {PatchDevice(storage, sess, Param(p.deviceId), body).store :
        sess \in Admins, body \in PatchBodies}
      \cup {DeleteDevice(storage, sess, Param(p.deviceId)).store : sess \in Admins}

\* C27: the device content embedded in a chat turn's prompt is the content the
\* device had when the request looked it up.  The handler builds the prompt
\* from the device it read and hands it to the provider in the same step; an
\* updateDevice or deleteDevice of that device that completes afterwards,
\* while the call is open, leaves the prompt of the waiting turn as it was,
\* whatever the store holds by then, and the turn still stores its reply and
\* answers 200.
C27_PromptFromDeviceAtLookup ==
    /\ \A c \in AcceptedChats : \A t1, t2 \in Times :
          \A p \in PostChat(storage, TRUE, c[1], c[2], t1, t2).suspended :
              /\ p.device = storage.devices[parseInt(c[1])]
              /\ p.sent = systemPrompt(storage.devices[parseInt(c[1])], QueryOf(p))
    /\ \A p \in pending :
          /\ p.device.id = p.deviceId
          /\ p.sent = systemPrompt(p.device, QueryOf(p))
          /\ \A T \in {storage} \cup StoresAfterChangeOf(p) :
                \A outcome \in ProviderOutcomes : \A t \in Times :
                    LET r == PostChatResume(T, p, outcome, t)
                    IN /\ r.res.status = 200
                       /\ r.res.body.userMessage = p.userMessage
                       /\ Added(T, r.store) =
                             {[id |-> T.messageId]
                                @@ aiMessageOf(p.deviceId, ReplyText(outcome), t)}

\* C27 witness: a turn of device 1 waits for the provider; the device was
\* updated after the turn read it, and the prompt carries the specifications
\* the device had before the update
C27_Witness ==
    \E p \in pending :
        /\ p.deviceId \in DOMAIN storage.devices
        /\ storage.devices[p.deviceId].specifications = "s2"
        /\ storage.devices[p.deviceId] # p.device
        /\ "s2" \notin Range(p.sent)
        /\ p.device.specifications \in Range(p.sent)

\* stores the seeding can find when scrypt answers: the one it does find, and
\* that one after a category, a device, or both were created
PreSeedStores ==
    LET category == [name |-> "Lathes"]
        device == [name |-> "Mill", categoryId |-> 1, specifications |-> "s1"]
        withCategory == createDeviceCategory(storage, category).store
    IN {storage, withCategory, createDevice(storage, device).store,
        createDevice(withCategory, device).store}

\* in T, the store after seeding the store S, the k-th seeded device names the
\* category the seeding created for it
SeedReferencesHold(S, T) ==
    \A k \in 1..NumSeedDevices :
        LET device == T.devices[S.deviceId + k - 1]
            cid == S.categoryId + SeedDevices[k].category - 1
        IN /\ device.name = SeedDevices[k].name
           /\ device.categoryId = cid
           /\ cid \in DOMAIN T.deviceCategories
           /\ T.deviceCategories[cid] = [id |-> cid] @@ SeedCategories[SeedDevices[k].category]

SeedCategoriesExist(S) ==
    \A c \in 1..NumSeedCategories :
        c \in DOMAIN S.deviceCategories /\ S.deviceCategories[c] = [id |-> c] @@ SeedCategories[c]

\* C28 (as stated): in every reachable state during and after seeding, each
\* seeded device's categoryId refers to the seed category created for it and
\* that category exists.
C28_SeededDevicesKeepCategory ==
    seedPc = "done" =>
        \A k \in 1..NumSeedDevices :
            k \in DOMAIN storage.devices =>
                /\ storage.devices[k].categoryId = SeedDevices[k].category
                /\ storage.devices[k].categoryId \in DOMAIN storage.deviceCategories

\* C28 (amended): the constructor starts the seeding without waiting for it;
\* requests can be served while it waits for scrypt, and none of them creates
\* a category or a device (there is no administrator yet).  When scrypt has
\* answered the seeding runs to its end in one go, and each seeded device's
\* categoryId is the id createDeviceCategory returned for its seed category,
\* so the reference holds even on a store whose counters other creates have
\* moved.  From then on the seed categories exist in every state, and a seeded
\* device keeps its categoryId in every step except an administrator's
\* PATCH /api/devices/:deviceId, which can point it at any category id,
\* existing or not.
C28_SeedReferencesUntilPatched ==
    [][ /\ seedPc = "hashing" =>
              /\ storage.categoryId = 1 /\ storage.deviceId = 1
              /\ \A S \in PreSeedStores : SeedReferencesHold(S, initializeSampleData(S))
        /\ seedPc' = "done" =>
              /\ SeedCategoriesExist(storage')
              /\ seedPc = "hashing" => SeedReferencesHold(storage, storage')
              /\ \A k \in 1..NumSeedDevices :
                    (seedPc = "done" /\ k \in DOMAIN storage'.devices) =>
                        \/ /\ k \in DOMAIN storage.devices
                           /\ storage'.devices[k].categoryId = storage.devices[k].categoryId
                        \/ route' = "PATCH /api/devices/:deviceId"
      ]_vars

\* C28 witness: a user registered while the seeding waited for scrypt, so the
\* seeded administrator is user 2; after the seeding a category and a device
\* were created, and every seeded device names its seed category
C28_Witness ==
    /\ seedPc = "done"
    /\ storage.users[1].username = "bob"
    /\ storage.users[2].username = "admin"
    /\ FirstNewCategory \in DOMAIN storage.deviceCategories
    /\ FirstNewDevice \in DOMAIN storage.devices
    /\ SeedCategoriesExist(storage)
    /\ \A k \in 1..NumSeedDevices :
          k \in DOMAIN storage.devices /\ storage.devices[k].categoryId = SeedDevices[k].category

\* the runs of handleSendMessage whose upload gave a URL and that have posted
SentWithImage == {run \in ui.sends : run.imageUrl # Null /\ run.pc \in {"posting", "responded"}}

\* C29: when the user sends a chat message in the UI with an image selected
\* and the upload succeeds, the body of the resulting
\* POST /api/devices/:deviceId/chat carries the uploaded image's URL as
\* imageUrl, so the stored user message has that imageUrl.
C29_UploadedImageUrlPosted ==
    \A run \in SentWithImage :
        /\ "imageUrl" \in DOMAIN run.body
        /\ run.body.imageUrl = run.imageUrl.text
        /\ run.pc = "responded" =>
              /\ "imageUrl" \in DOMAIN run.res.body.userMessage
              /\ run.res.body.userMessage.imageUrl = run.imageUrl.text

\* C30: in the chat UI at most one send is in flight at a time
\* (handleSendMessage does nothing while isSending is true, also when it is
\* triggered twice before a re-render), isSending is false again once the send
\* has succeeded or failed, and the draft text and the selected image are
\* cleared only by the end of a successful send.
C30_OneSendInFlight ==
    [][ /\ Cardinality(ui'.sends) <= 1
        /\ ui'.sends = {} => ~ui'.isSending
        /\ ((ui.message # "" /\ ui'.message = "") \/ (ui.selectedImage /\ ~ui'.selectedImage))
              => \E run \in ui.sends \ ui'.sends : run.pc = "responded" /\ run.res.status = 200
      ]_vars

====
